---- MODULE Spec2Model ----
(***************************************************************************)
(* Event aggregation run of main.py: the adapters are called one after the *)
(* other, save_to_excel loads the workbook, reconciles the scraped events  *)
(* against it, sorts the result by parsed date and writes the workbook     *)
(* back.                                                                   *)
(*                                                                         *)
(* A Python str is a sequence of one-character strings; Python's None is   *)
(* the value None below, which is no such sequence.                        *)
(***************************************************************************)
EXTENDS Integers, Sequences, FiniteSets, TLC

VARIABLES
    store,            \* the workbook file events.xlsx
    storeBefore,      \* history: the file as it was when the run started
    run,              \* number of the current run of main()
    pc,               \* position of the run
    ai,               \* index of the adapter main() calls next
    all_events,       \* main()'s list all_events (the dicts of the batch)
    outcomes,         \* history: what each adapter called so far did
    existing_events,  \* save_to_excel's dict, in insertion order
    persisted,        \* history: existing_events as the load left it
    loadFailed,       \* history: the load ended in the except branch
    ei,               \* index of the event the reconcile loop handles next
    new_count,
    updated_count,
    sorted_events,    \* save_to_excel's list sorted_events
    prevExisting,     \* history: existing_events at the end of the last run
    prevNew,          \* history: the keys the last run added as new
    scraped,          \* history: events the adapters returned, over all runs
    faults,           \* history: read failures and kills so far
    call_arg,         \* the argument of a call of parse_date
    call_ret,         \* <<>>, or <<what parse_date returned for call_arg>>
    scraper,          \* the adapter whose scrape function is followed
    event_links,      \* the links the adapter found on the page
    link_i,           \* index of the link the adapter's loop handles next
    seen_urls,        \* the adapter's set seen_urls
    adapter_events,   \* the adapter's list events
    detail_i,         \* index of the event whose detail page is fetched next
    scrape_pc         \* position of the adapter

vars == <<store, storeBefore, run, pc, ai, all_events, outcomes,
          existing_events, persisted, loadFailed, ei, new_count,
          updated_count, sorted_events, prevExisting, prevNew, scraped,
          faults, call_arg, call_ret, scraper, event_links, link_i,
          seen_urls, adapter_events, detail_i, scrape_pc>>

\* the variables of a call of parse_date on its own
dateVars == <<call_arg, call_ret>>

\* the variables of a call of an adapter on its own
scrapeVars == <<scraper, event_links, link_i, seen_urls, adapter_events,
                detail_i,
                scrape_pc>>

\* the variables the run leaves alone
callVars == <<dateVars, scrapeVars>>

\* the variables of the run
runVars == <<store, storeBefore, run, pc, ai, all_events, outcomes,
             existing_events, persisted, loadFailed, ei, new_count,
             updated_count, sorted_events, prevExisting, prevNew, scraped,
             faults>>

----------------------------------------------------------------------------
(* Bounds of the model *)

\* runs of main() that are followed
MaxRuns == 2
\* events the adapters return altogether, over all runs
MaxEvents == 3
\* failed reads of the workbook and kills of the process, over all runs
MaxFaults == 1
\* the days DD and the months MM of the strings DD.MM.YYYY that are parsed
MaxDay == 32
MaxMonth == 13
\* rows of a workbook that is loaded on its own
MaxRows == 3
\* links on the page an adapter scrapes on its own
MaxLinks == 2
\* rows of the workbook and events of the list, when save_to_excel is called
\* on its own
MaxStored == 2
MaxBatch == 2

----------------------------------------------------------------------------
(* Strings *)

None == <<"None">>

SEE_DETAILS == <<"S","e","e"," ","d","e","t","a","i","l","s">>

Digits == {"0","1","2","3","4","5","6","7","8","9"}

LowerLetters == {"a","b","c","d","e","f","g","h","i","j","k","l","m","n","o",
                 "p","q","r","s","t","u","v","w","x","y","z","ä","ö","ü","ß"}

UpperLetters == {"A","B","C","D","E","F","G","H","I","J","K","L","M","N","O",
                 "P","Q","R","S","T","U","V","W","X","Y","Z","Ä","Ö","Ü"}

\* \d, \w and \s of Python's re on str patterns
IsDigit(c) == c \in Digits
IsWord(c) == c \in Digits \cup LowerLetters \cup UpperLetters \cup {"_"}
IsSpace(c) == c \in {" ", "\t", "\n"}

DigitVal(c) ==
    CASE c = "0" -> 0 [] c = "1" -> 1 [] c = "2" -> 2 [] c = "3" -> 3
      [] c = "4" -> 4 [] c = "5" -> 5 [] c = "6" -> 6 [] c = "7" -> 7
      [] c = "8" -> 8 [] c = "9" -> 9

\* int() of a string of digits
RECURSIVE ToInt(_)
ToInt(s) ==
    IF s = <<>> THEN 0
    ELSE 10 * ToInt(SubSeq(s, 1, Len(s) - 1)) + DigitVal(s[Len(s)])

LowerChar(c) ==
    CASE c = "A" -> "a" [] c = "B" -> "b" [] c = "C" -> "c" [] c = "D" -> "d"
      [] c = "E" -> "e" [] c = "F" -> "f" [] c = "G" -> "g" [] c = "H" -> "h"
      [] c = "I" -> "i" [] c = "J" -> "j" [] c = "K" -> "k" [] c = "L" -> "l"
      [] c = "M" -> "m" [] c = "N" -> "n" [] c = "O" -> "o" [] c = "P" -> "p"
      [] c = "Q" -> "q" [] c = "R" -> "r" [] c = "S" -> "s" [] c = "T" -> "t"
      [] c = "U" -> "u" [] c = "V" -> "v" [] c = "W" -> "w" [] c = "X" -> "x"
      [] c = "Y" -> "y" [] c = "Z" -> "z" [] c = "Ä" -> "ä" [] c = "Ö" -> "ö"
      [] c = "Ü" -> "ü" [] OTHER -> c

\* a variant of Lower: the string as it is
LowerLeftOut(s) == s

\* str.lower()
Lower(s) == [i \in 1..Len(s) |-> LowerChar(s[i])]

RECURSIVE Flatten(_)
Flatten(ss) == IF ss = <<>> THEN <<>> ELSE Head(ss) \o Flatten(Tail(ss))

\* number of characters from position p on that match \d, \s, \w
RECURSIVE DigitRun(_, _)
DigitRun(s, p) ==
    IF p > Len(s) \/ ~IsDigit(s[p]) THEN 0 ELSE 1 + DigitRun(s, p + 1)

RECURSIVE SpaceRun(_, _)
SpaceRun(s, p) ==
    IF p > Len(s) \/ ~IsSpace(s[p]) THEN 0 ELSE 1 + SpaceRun(s, p + 1)

RECURSIVE WordRun(_, _)
WordRun(s, p) ==
    IF p > Len(s) \/ ~IsWord(s[p]) THEN 0 ELSE 1 + WordRun(s, p + 1)

\* n, n-1, ..., lo
Down(n, lo) == [i \in 1..(n - lo + 1) |-> n + 1 - i]

----------------------------------------------------------------------------
(* datetime *)

IsLeap(y) == (y % 4 = 0 /\ y % 100 # 0) \/ y % 400 = 0

DaysInMonth(y, m) ==
    IF m \in {4, 6, 9, 11} THEN 30
    ELSE IF m = 2 THEN (IF IsLeap(y) THEN 29 ELSE 28)
    ELSE 31

\* datetime(y, m, d) raises ValueError unless this holds
ValidDate(y, m, d) ==
    /\ y \in 1..9999
    /\ m \in 1..12
    /\ d \in 1..DaysInMonth(y, m)

----------------------------------------------------------------------------
(* parse_date *)

month_map ==
    <<
       [name |-> <<"j","a","n","u","a","r">>, month |-> 1],
       [name |-> <<"j","a","n","u","a","r","y">>, month |-> 1],
       [name |-> <<"j","a","n">>, month |-> 1],
       [name |-> <<"f","e","b","r","u","a","r">>, month |-> 2],
       [name |-> <<"f","e","b","r","u","a","r","y">>, month |-> 2],
       [name |-> <<"f","e","b">>, month |-> 2],
       [name |-> <<"m","ä","r","z">>, month |-> 3],
       [name |-> <<"m","a","r","c","h">>, month |-> 3],
       [name |-> <<"m","a","r">>, month |-> 3],
       [name |-> <<"a","p","r","i","l">>, month |-> 4],
       [name |-> <<"a","p","r">>, month |-> 4],
       [name |-> <<"m","a","i">>, month |-> 5],
       [name |-> <<"m","a","y">>, month |-> 5],
       [name |-> <<"j","u","n","i">>, month |-> 6],
       [name |-> <<"j","u","n","e">>, month |-> 6],
       [name |-> <<"j","u","n">>, month |-> 6],
       [name |-> <<"j","u","l","i">>, month |-> 7],
       [name |-> <<"j","u","l","y">>, month |-> 7],
       [name |-> <<"j","u","l">>, month |-> 7],
       [name |-> <<"a","u","g","u","s","t">>, month |-> 8],
       [name |-> <<"a","u","g">>, month |-> 8],
       [name |-> <<"s","e","p","t","e","m","b","e","r">>, month |-> 9],
       [name |-> <<"s","e","p">>, month |-> 9],
       [name |-> <<"s","e","p","t">>, month |-> 9],
       [name |-> <<"o","k","t","o","b","e","r">>, month |-> 10],
       [name |-> <<"o","c","t","o","b","e","r">>, month |-> 10],
       [name |-> <<"o","c","t">>, month |-> 10],
       [name |-> <<"n","o","v","e","m","b","e","r">>, month |-> 11],
       [name |-> <<"n","o","v">>, month |-> 11],
       [name |-> <<"d","e","z","e","m","b","e","r">>, month |-> 12],
       [name |-> <<"d","e","c","e","m","b","e","r">>, month |-> 12],
       [name |-> <<"d","e","c">>, month |-> 12]
    >>

\* a variant of MonthOf: January for a name that is no key
MonthOfDefault(name) ==
    IF \E i \in 1..Len(month_map) : month_map[i].name = name
    THEN month_map[CHOOSE i \in 1..Len(month_map) : month_map[i].name = name].month
    ELSE 1

\* month_map.get(name): the month number, or 0 when the name is no key
MonthOf(name) ==
    IF \E i \in 1..Len(month_map) : month_map[i].name = name
    THEN month_map[CHOOSE i \in 1..Len(month_map) : month_map[i].name = name].month
    ELSE 0

(* A regular expression is matched as Python's backtracking matcher does: a *)
(* match state is the position reached and the groups captured so far, and  *)
(* each element of the pattern maps a state to the states it can continue   *)
(* in, most preferred first (greedy: the longest first).  re.match returns  *)
(* the first state that gets through the whole pattern.                     *)

StartMatch == [p |-> 1, g |-> <<>>]

\* a literal character
Lit(s, c, m) ==
    IF m.p <= Len(s) /\ s[m.p] = c THEN <<[m EXCEPT !.p = @ + 1]>> ELSE <<>>

\* c?
Opt(s, c, m) == Lit(s, c, m) \o <<m>>

\* (\d{lo,hi})
DigitsGroup(s, lo, hi, m) ==
    LET n == DigitRun(s, m.p)
        top == IF n < hi THEN n ELSE hi
        lens == Down(top, lo)
    IN  [i \in 1..Len(lens) |->
            [p |-> m.p + lens[i],
             g |-> Append(m.g, SubSeq(s, m.p, m.p + lens[i] - 1))]]

\* (\d{1,2})?
OptDigitsGroup(s, m) ==
    DigitsGroup(s, 1, 2, m) \o <<[m EXCEPT !.g = Append(@, None)]>>

\* \s* (lo = 0) and \s+ (lo = 1)
Spaces(s, lo, m) ==
    LET lens == Down(SpaceRun(s, m.p), lo)
    IN  [i \in 1..Len(lens) |-> [m EXCEPT !.p = @ + lens[i]]]

\* (\w+)
WordGroup(s, m) ==
    LET lens == Down(WordRun(s, m.p), 1)
    IN  [i \in 1..Len(lens) |->
            [p |-> m.p + lens[i],
             g |-> Append(m.g, SubSeq(s, m.p, m.p + lens[i] - 1))]]

\* the elements a pattern is made of
PLit(c) == [kind |-> "lit", c |-> c, lo |-> 0, hi |-> 0]
POpt(c) == [kind |-> "opt", c |-> c, lo |-> 0, hi |-> 0]
PDigits(lo, hi) == [kind |-> "digits", c |-> "", lo |-> lo, hi |-> hi]
POptDigits == [kind |-> "optdigits", c |-> "", lo |-> 1, hi |-> 2]
PSpaces(lo) == [kind |-> "spaces", c |-> "", lo |-> lo, hi |-> 0]
PWord == [kind |-> "word", c |-> "", lo |-> 1, hi |-> 0]

\* the states one element of a pattern leads to from state m
Element(s, el, m) ==
    CASE el.kind = "lit" -> Lit(s, el.c, m)
      [] el.kind = "opt" -> Opt(s, el.c, m)
      [] el.kind = "digits" -> DigitsGroup(s, el.lo, el.hi, m)
      [] el.kind = "optdigits" -> OptDigitsGroup(s, m)
      [] el.kind = "spaces" -> Spaces(s, el.lo, m)
      [] el.kind = "word" -> WordGroup(s, m)

\* the states the pattern leads to from the given states, in order of preference
RECURSIVE MatchFrom(_, _, _)
MatchFrom(s, pattern, states) ==
    IF pattern = <<>> THEN states
    ELSE MatchFrom(s, Tail(pattern),
                   Flatten([i \in 1..Len(states) |->
                               Element(s, Head(pattern), states[i])]))

\* r'(\d{1,2})\.(\d{1,2})\.(\d{4})'
NumericPattern ==
    <<PDigits(1, 2), PLit("."), PDigits(1, 2), PLit("."), PDigits(4, 4)>>

\* r'(\d{1,2})\.?/?\.?\s*(\d{1,2})?\.?\s*(\w+)\s+(\d{4})'
MonthNamePattern ==
    <<PDigits(1, 2), POpt("."), POpt("/"), POpt("."), PSpaces(0), POptDigits,
      POpt("."), PSpaces(0), PWord, PSpaces(1), PDigits(4, 4)>>

\* re.match(pattern, s): the match states, the one re.match returns first
MatchNumeric(s) == MatchFrom(s, NumericPattern, <<StartMatch>>)

MatchMonthName(s) == MatchFrom(s, MonthNamePattern, <<StartMatch>>)

\* what parse_date returns for an unparseable date (Python's None)
NoDate == [known |-> FALSE, y |-> 0, m |-> 0, d |-> 0]

\* datetime(y, m, d)
Date(y, m, d) == [known |-> TRUE, y |-> y, m |-> m, d |-> d]

\* datetime(year, month, day), or None where it raises ValueError
DateOrNone(year, month, day) ==
    IF ValidDate(year, month, day) THEN Date(year, month, day) ELSE NoDate

\* a variant of NumericDate: the month read before the day
NumericDateMonthFirst(g) == DateOrNone(ToInt(g[3]), ToInt(g[1]), ToInt(g[2]))

\* line 85, from the groups of the first pattern
NumericDate(g) == DateOrNone(ToInt(g[3]), ToInt(g[2]), ToInt(g[1]))

\* a variant of MonthNameDate: the last day of a range of days is taken
MonthNameDateLastDay(g) ==
    LET month == MonthOf(Lower(g[3]))
        day == IF g[2] # None /\ g[2] # <<>> THEN ToInt(g[2]) ELSE ToInt(g[1])
    IN  IF month # 0 THEN DateOrNone(ToInt(g[4]), month, day)
        ELSE NoDate

\* lines 92-113, from the groups of the second pattern
MonthNameDate(g) ==
    LET month == MonthOf(Lower(g[3]))
    IN  IF month # 0 THEN DateOrNone(ToInt(g[4]), month, ToInt(g[1]))
        ELSE NoDate

\* lines 82-87: the first pattern; None when it falls through
TryNumeric(date_str) ==
    LET ms == MatchNumeric(date_str)
    IN  IF ms = <<>> THEN NoDate ELSE NumericDate(ms[1].g)

\* lines 90-113: the second pattern
TryMonthName(date_str) ==
    LET ms == MatchMonthName(date_str)
    IN  IF ms = <<>> THEN NoDate ELSE MonthNameDate(ms[1].g)

parse_date(date_str) ==
    IF date_str = None \/ date_str = <<>> \/ date_str = SEE_DETAILS
    THEN NoDate
    ELSE LET numeric == TryNumeric(date_str)
         IN  IF numeric.known THEN numeric ELSE TryMonthName(date_str)

----------------------------------------------------------------------------
(* Events, the dict existing_events, the workbook *)

\* an event dict
Event(title, date, location, url, source) ==
    [title |-> title, date |-> date, location |-> location,
     url |-> url, source |-> source]

\* a variant of KeyOf: the source is left out of the key
KeyOfNoSource(event) == <<event.title, event.url>>

\* key = (event['title'], event['url'], event['source'])
KeyOf(event) == <<event.title, event.url, event.source>>

(* existing_events is a sequence of entries in insertion order (a dict keeps *)
(* it).  An entry holds the key, the dict stored under it, and ref: the      *)
(* index in all_events of the event whose dict this is (line 55 stores the   *)
(* event itself, no copy), or 0 for a dict the loader built.                 *)
\* a variant of Entry: the record is stored without its date and location
EntryWithoutDetails(key, value, ref) ==
    [key |-> key,
     value |-> [value EXCEPT !.date = SEE_DETAILS, !.location = SEE_DETAILS],
     ref |-> ref]

Entry(key, value, ref) == [key |-> key, value |-> value, ref |-> ref]

\* the position of key in the dict, 0 when it is not in it
IndexOf(map, key) ==
    IF \E i \in 1..Len(map) : map[i].key = key
    THEN CHOOSE i \in 1..Len(map) : map[i].key = key
    ELSE 0

Keys(map) == {map[i].key : i \in 1..Len(map)}

\* a variant of Values: only the dicts this run's batch brought
ValuesOfBatch(map) ==
    LET fromBatch == {i \in 1..Len(map) : map[i].ref # 0}
        nth(n) == CHOOSE i \in fromBatch :
                     Cardinality({j \in fromBatch : j < i}) = n - 1
    IN  [n \in 1..Cardinality(fromBatch) |-> map[nth(n)].value]

\* existing_events.values()
Values(map) == [i \in 1..Len(map) |-> map[i].value]

\* existing_events[key]
ValueOf(map, key) == map[IndexOf(map, key)].value

\* a variant of Put: a key that is in the dict keeps its value
PutKeepsFirst(map, key, value, ref) ==
    IF IndexOf(map, key) = 0
    THEN Append(map, Entry(key, value, ref))
    ELSE map

\* existing_events[key] = value
Put(map, key, value, ref) ==
    IF IndexOf(map, key) = 0
    THEN Append(map, Entry(key, value, ref))
    ELSE [map EXCEPT ![IndexOf(map, key)] = Entry(key, value, ref)]

\* the file: absent, or a workbook of rows, or a file whose writing was cut
NoFile == [exists |-> FALSE, complete |-> FALSE, rows |-> <<>>]
Workbook(rows) == [exists |-> TRUE, complete |-> TRUE, rows |-> rows]
Truncated == [exists |-> TRUE, complete |-> FALSE, rows |-> <<>>]

\* a variant of Cell: the placeholder is written as an empty cell as well
CellBlanksPlaceholder(v) == IF v = <<>> \/ v = SEE_DETAILS THEN None ELSE v

\* the value a cell read back holds for a value written: openpyxl writes
\* None and '' as an empty cell, and reads an empty cell as None
Cell(v) == IF v = <<>> THEN None ELSE v

\* a variant of RowOf: the location is written into the column of the date
RowOfLocationFirst(event) ==
    <<Cell(event.title), Cell(event.location), Cell(event.date),
      Cell(event.url), Cell(event.source)>>

\* the row ws.append writes for an event, as iter_rows reads it back:
\* (title, date, location, url, source)
RowOf(event) ==
    <<Cell(event.title), Cell(event.date), Cell(event.location),
      Cell(event.url), Cell(event.source)>>

\* a variant of RowKey: the key taken from the columns title, date, source
RowKeyOfDate(row) == <<row[1], row[2], row[5]>>

\* line 37: key = (title, url, source), of the cells of a row
RowKey(row) == <<row[1], row[4], row[5]>>

\* lines 35-44, for one row
LoadRow(map, row) ==
    IF row[1] # None
    THEN Put(map, RowKey(row),
             Event(row[1], row[2], row[3], row[4], row[5]), 0)
    ELSE map

\* lines 34-44: the loop over the first n rows
RECURSIVE LoadRows(_, _)
LoadRows(rows, n) ==
    IF n = 0 THEN <<>> ELSE LoadRow(LoadRows(rows, n - 1), rows[n])

----------------------------------------------------------------------------
(* Reconciliation: the body of the loop of lines 52-68 *)

\* the state the loop works on
Pass(map, events, new, updated) ==
    [map |-> map, events |-> events, new |-> new, updated |-> updated]

\* a variant of Upgrades: the last concrete value wins
UpgradesLastWins(stored, incoming) == incoming # SEE_DETAILS

\* a variant of Upgrades: the empty string taken for the placeholder
UpgradesEmpty(stored, incoming) == stored = <<>> /\ incoming # SEE_DETAILS

\* a variant of Upgrades: an empty and a missing value are placeholders too
UpgradesBlank(stored, incoming) ==
    stored \in {SEE_DETAILS, <<>>, None} /\ incoming # SEE_DETAILS

\* line 61, line 64: the stored field is the placeholder, the incoming is not
Upgrades(stored, incoming) == stored = SEE_DETAILS /\ incoming # SEE_DETAILS

\* a variant of Merged: the incoming fields are always taken
MergedOverwrites(existing, event) ==
    [existing EXCEPT !.date = event.date, !.location = event.location]

\* a variant of Merged: line 64 an elif, one field upgraded per event
MergedElif(existing, event) ==
    IF Upgrades(existing.date, event.date)
    THEN [existing EXCEPT !.date = event.date]
    ELSE IF Upgrades(existing.location, event.location)
         THEN [existing EXCEPT !.location = event.location]
         ELSE existing

\* a variant of Merged: only the date is upgraded
MergedDateOnly(existing, event) ==
    IF Upgrades(existing.date, event.date)
    THEN [existing EXCEPT !.date = event.date]
    ELSE existing

\* a variant of Merged: line 59's dict replaced by the event
MergedReplaces(existing, event) == event

\* lines 59-66: the dict existing after the two assignments
Merged(existing, event) ==
    [existing EXCEPT
        !.date = IF Upgrades(existing.date, event.date)
                 THEN event.date ELSE @,
        !.location = IF Upgrades(existing.location, event.location)
                     THEN event.location ELSE @]

\* a variant of MergeStep: line 54's test left out, every event is new
MergeStepAlwaysNew(st, i) ==
    [st EXCEPT !.map = Append(st.map, Entry(KeyOf(st.events[i]), st.events[i], i)),
               !.new = @ + 1]

\* a variant of MergeStep: updated_count counts the fields overwritten
MergeStepCountsFields(st, i) ==
    LET event == st.events[i]
        key == KeyOf(event)
        j == IndexOf(st.map, key)
    IN  IF j = 0
        THEN [st EXCEPT !.map = Put(st.map, key, event, i),
                        !.new = @ + 1]
        ELSE LET existing == st.map[j].value
                 merged == Merged(existing, event)
                 ref == st.map[j].ref
             IN  [st EXCEPT
                    !.map[j].value = merged,
                    !.events = IF ref = 0 THEN @
                               ELSE [@ EXCEPT ![ref] = merged],
                    !.updated =
                        @ + (IF Upgrades(existing.date, event.date)
                             THEN 1 ELSE 0)
                          + (IF Upgrades(existing.location, event.location)
                             THEN 1 ELSE 0)]

\* a variant of MergeStep: a new record is counted as updated as well
MergeStepUpdatesNew(st, i) ==
    LET event == st.events[i]
        key == KeyOf(event)
        j == IndexOf(st.map, key)
    IN  IF j = 0
        THEN [st EXCEPT !.map = Put(st.map, key, event, i),
                        !.new = @ + 1,
                        !.updated = @ + 1]
        ELSE LET existing == st.map[j].value
                 merged == Merged(existing, event)
                 ref == st.map[j].ref
             IN  [st EXCEPT
                    !.map[j].value = merged,
                    !.events = IF ref = 0 THEN @
                               ELSE [@ EXCEPT ![ref] = merged],
                    !.updated =
                        IF Upgrades(existing.date, event.date)
                           \/ Upgrades(existing.location, event.location)
                        THEN @ + 1 ELSE @]

\* lines 53-68 for the event all_events[i]
MergeStep(st, i) ==
    LET event == st.events[i]
        key == KeyOf(event)
        j == IndexOf(st.map, key)
    IN  IF j = 0
        THEN [st EXCEPT !.map = Put(st.map, key, event, i),
                        !.new = @ + 1]
        ELSE LET existing == st.map[j].value
                 merged == Merged(existing, event)
                 ref == st.map[j].ref
             IN  [st EXCEPT
                    !.map[j].value = merged,
                    \* the stored dict is the dict of an earlier event
                    !.events = IF ref = 0 THEN @
                               ELSE [@ EXCEPT ![ref] = merged],
                    !.updated =
                        IF Upgrades(existing.date, event.date)
                           \/ Upgrades(existing.location, event.location)
                        THEN @ + 1 ELSE @]

\* lines 50-68: the whole loop, from event i on
RECURSIVE ReconcileFrom(_, _)
ReconcileFrom(st, i) ==
    IF i > Len(st.events) THEN st ELSE ReconcileFrom(MergeStep(st, i), i + 1)

\* the loop on the dict P and the batch I
Reconcile(P, I) == ReconcileFrom(Pass(P, I, 0, 0), 1)

\* the dict P with dicts of its own, none of them an event of a batch
Fresh(P) == [i \in 1..Len(P) |-> [P[i] EXCEPT !.ref = 0]]

----------------------------------------------------------------------------
(* Ordering: lines 117-123 *)

\* a variant of sort_key: (0, datetime.min) for a date that is not known
sort_keyUnknownFirst(event) ==
    LET parsed == parse_date(event.date)
    IN  IF ~parsed.known THEN <<0, 1, 1, 1>>
        ELSE <<0, parsed.y, parsed.m, parsed.d>>

\* sort_key: (0, parsed) or (1, datetime.max)
sort_key(event) ==
    LET parsed == parse_date(event.date)
    IN  IF ~parsed.known THEN <<1, 9999, 12, 31>>
        ELSE <<0, parsed.y, parsed.m, parsed.d>>

\* a < b for the tuples sort_key returns
KeyLess(a, b) ==
    \E i \in 1..4 : a[i] < b[i] /\ \A j \in 1..(i - 1) : a[j] = b[j]

\* a variant of Insert: x is put before the elements with an equal key
InsertBeforeEqual(s, x) ==
    LET n == Cardinality({i \in 1..Len(s) : KeyLess(sort_key(s[i]), sort_key(x))})
    IN  SubSeq(s, 1, n) \o <<x>> \o SubSeq(s, n + 1, Len(s))

\* x put into the sorted list s behind every element that is not greater
Insert(s, x) ==
    LET n == Cardinality({i \in 1..Len(s) : ~KeyLess(sort_key(x), sort_key(s[i]))})
    IN  SubSeq(s, 1, n) \o <<x>> \o SubSeq(s, n + 1, Len(s))

\* sorted(values, key=sort_key): stable, ascending
RECURSIVE sorted(_)
sorted(values) ==
    IF values = <<>> THEN <<>>
    ELSE Insert(sorted(SubSeq(values, 1, Len(values) - 1)), values[Len(values)])

----------------------------------------------------------------------------
(* What the adapters can return *)

\* 'GEFMA' and 'IFMA', the values of 'source', by their first letter
GEFMA == <<"G">>
IFMA == <<"I">>

\* the adapters main() calls, in the order of lines 166-252
Adapters == <<GEFMA, IFMA>>

\* a title, a url and a location
TitleA == <<"K">>
UrlA == <<"x">>
Berlin == <<"B">>
Date_10_03_2026 == <<"1","0",".","0","3",".","2","0","2","6">>
Date_21_April_2026 == <<"2","1","."," ","A","p","r","i","l"," ","2","0","2","6">>

\* the events an adapter can put into its batch
Candidates(a) ==
    IF a = 1
    THEN { Event(TitleA, SEE_DETAILS, SEE_DETAILS, UrlA, GEFMA),
           Event(TitleA, Date_21_April_2026, Berlin, UrlA, GEFMA),
           Event(TitleA, Date_10_03_2026, SEE_DETAILS, UrlA, GEFMA),
           \* a card whose h3 span is empty: title ''
           Event(<<>>, Date_10_03_2026, Berlin, UrlA, GEFMA) }
    ELSE { Event(TitleA, SEE_DETAILS, SEE_DETAILS, UrlA, Adapters[a]) }

\* the sequences over S of length n
RECURSIVE SeqsOfLen(_, _)
SeqsOfLen(S, n) ==
    IF n = 0 THEN {<<>>}
    ELSE {Append(s, x) : s \in SeqsOfLen(S, n - 1), x \in S}

\* the batches adapter a can return when room events still fit the bound;
\* scrape_ifma_events skips a url it has seen (ifma.py, lines 49-66)
Batches(a, room) ==
    UNION {SeqsOfLen(Candidates(a), n) :
              n \in 0..(IF a = 2 /\ room > 1 THEN 1 ELSE room)}

----------------------------------------------------------------------------
(* The run: main() and save_to_excel() *)

\* the batches the adapters returned, concatenated: the events as the
\* adapters made them
returned == Flatten([i \in 1..Len(outcomes) |-> outcomes[i].batch])

\* the adapters that raised
raised == {i \in 1..Len(outcomes) : outcomes[i].raised}

\* no run has started: no file, nothing scraped
RunInit ==
    /\ store = NoFile
    /\ storeBefore = NoFile
    /\ run = 1
    /\ pc = "adapters"
    /\ ai = 1
    /\ all_events = <<>>
    /\ outcomes = <<>>
    /\ existing_events = <<>>
    /\ persisted = <<>>
    /\ loadFailed = FALSE
    /\ ei = 1
    /\ new_count = 0
    /\ updated_count = 0
    /\ sorted_events = <<>>
    /\ prevExisting = <<>>
    /\ prevNew = {}
    /\ scraped = 0
    /\ faults = 0

\* no adapter is followed on its own
ScrapeIdle ==
    /\ scraper = None
    /\ event_links = <<>>
    /\ link_i = 1
    /\ seen_urls = {}
    /\ adapter_events = <<>>
    /\ detail_i = 1
    /\ scrape_pc = "idle"

\* no call of parse_date is followed on its own
DateIdle ==
    /\ call_arg = None
    /\ call_ret = <<>>

Init ==
    /\ RunInit
    /\ DateIdle
    /\ ScrapeIdle

\* a variant of AfterAdapter: save_to_excel is called after each adapter
AfterAdapterSaves ==
    /\ ai' = ai + 1
    /\ pc' = "load"

\* after adapter ai: the next adapter, or save_to_excel (line 255)
AfterAdapter ==
    /\ ai' = ai + 1
    /\ pc' = IF ai = Len(Adapters) THEN "load" ELSE "adapters"

\* lines 167-170 (and the like): the adapter returns its batch
AdapterReturns ==
    /\ pc = "adapters"
    /\ \E batch \in Batches(ai, MaxEvents - scraped) :
          /\ all_events' = all_events \o batch
          /\ outcomes' = Append(outcomes, [raised |-> FALSE, batch |-> batch])
          /\ scraped' = scraped + Len(batch)
    /\ AfterAdapter
    /\ UNCHANGED <<store, storeBefore, run, existing_events, persisted,
                   loadFailed, ei, new_count, updated_count, sorted_events,
                   prevExisting,
                   prevNew, faults>>
    /\ UNCHANGED callVars

\* a variant of AdapterRaises: one try around all the adapters, the
\* adapters after the one that raised are not called
AdapterRaisesAborts ==
    /\ pc = "adapters"
    /\ outcomes' = Append(outcomes, [raised |-> TRUE, batch |-> <<>>])
    /\ ai' = ai + 1
    /\ pc' = "load"
    /\ UNCHANGED <<store, storeBefore, run, all_events,
                   existing_events, persisted, loadFailed, ei, new_count,
                   updated_count, sorted_events, prevExisting,
                   prevNew, scraped, faults>>
    /\ UNCHANGED callVars

\* lines 171-172 (and the like): the adapter raises, the error is logged
AdapterRaises ==
    /\ pc = "adapters"
    /\ outcomes' = Append(outcomes, [raised |-> TRUE, batch |-> <<>>])
    /\ AfterAdapter
    /\ UNCHANGED <<store, storeBefore, run, all_events,
                   existing_events, persisted, loadFailed, ei, new_count,
                   updated_count, sorted_events, prevExisting,
                   prevNew, scraped, faults>>
    /\ UNCHANGED callVars

\* what the load leaves in existing_events, and the loop's counters
Loaded(map, failed) ==
    /\ faults' = IF failed THEN faults + 1 ELSE faults
    /\ existing_events' = map
    /\ persisted' = map
    /\ loadFailed' = failed
    /\ ei' = 1
    /\ new_count' = 0
    /\ updated_count' = 0
    /\ pc' = "reconcile"
    /\ UNCHANGED <<store, storeBefore, run, ai, all_events, outcomes,
                   sorted_events, prevExisting,
                   prevNew, scraped>>
    /\ UNCHANGED callVars

\* lines 28-45: no file, or every row of the workbook is read
LoadSucceeds ==
    /\ pc = "load"
    /\ ~store.exists \/ store.complete
    /\ Loaded(LoadRows(store.rows, Len(store.rows)), FALSE)

\* lines 30-47: load_workbook raises (n = 0), or the loop raises at row n + 1
LoadFails ==
    /\ pc = "load"
    /\ store.exists
    /\ faults < MaxFaults \/ ~store.complete
    /\ \E n \in {0} \cup 0..(Len(store.rows) - 1) :
          Loaded(LoadRows(store.rows, n), TRUE)

\* lines 52-68: one iteration of the loop
ReconcileStep ==
    /\ pc = "reconcile"
    /\ ei <= Len(all_events)
    /\ LET st == MergeStep(Pass(existing_events, all_events,
                                new_count, updated_count), ei)
       IN  /\ existing_events' = st.map
           /\ all_events' = st.events
           /\ new_count' = st.new
           /\ updated_count' = st.updated
    /\ ei' = ei + 1
    /\ UNCHANGED <<store, storeBefore, run, pc, ai, outcomes,
                   persisted, loadFailed, sorted_events, prevExisting,
                   prevNew, scraped, faults>>
    /\ UNCHANGED callVars

\* line 123
Sort ==
    /\ pc = "reconcile"
    /\ ei > Len(all_events)
    /\ sorted_events' = sorted(Values(existing_events))
    /\ pc' = "save"
    /\ UNCHANGED <<store, storeBefore, run, ai, all_events, outcomes,
                   existing_events, persisted, loadFailed, ei, new_count,
                   updated_count, prevExisting,
                   prevNew, scraped, faults>>
    /\ UNCHANGED callVars

\* line 158, wb.save: the file is opened for writing, which empties it
SaveOpens ==
    /\ pc = "save"
    /\ store' = Truncated
    /\ pc' = "saving"
    /\ UNCHANGED <<storeBefore, run, ai, all_events, outcomes,
                   existing_events, persisted, loadFailed, ei, new_count,
                   updated_count, sorted_events, prevExisting,
                   prevNew, scraped, faults>>
    /\ UNCHANGED callVars

\* lines 142-158: the rows of sorted_events are in the file, the file is closed
SaveCloses ==
    /\ pc = "saving"
    /\ store' = Workbook([i \in 1..Len(sorted_events) |-> RowOf(sorted_events[i])])
    /\ pc' = "done"
    /\ UNCHANGED <<storeBefore, run, ai, all_events, outcomes,
                   existing_events, persisted, loadFailed, ei, new_count,
                   updated_count, sorted_events, prevExisting,
                   prevNew, scraped, faults>>
    /\ UNCHANGED callVars

\* the process is killed while wb.save writes
Killed ==
    /\ pc = "saving"
    /\ faults < MaxFaults
    /\ faults' = faults + 1
    /\ pc' = "killed"
    /\ UNCHANGED <<store, storeBefore, run, ai, all_events, outcomes,
                   existing_events, persisted, loadFailed, ei, new_count,
                   updated_count, sorted_events, prevExisting,
                   prevNew, scraped>>
    /\ UNCHANGED callVars

\* lines 258-259: main() is run again
NextRun ==
    /\ pc \in {"done", "killed"}
    /\ run < MaxRuns
    /\ run' = run + 1
    /\ storeBefore' = store
    /\ prevExisting' = existing_events
    /\ prevNew' = Keys(existing_events) \ Keys(persisted)
    /\ pc' = "adapters"
    /\ ai' = 1
    /\ all_events' = <<>>
    /\ outcomes' = <<>>
    /\ existing_events' = <<>>
    /\ persisted' = <<>>
    /\ loadFailed' = FALSE
    /\ ei' = 1
    /\ new_count' = 0
    /\ updated_count' = 0
    /\ sorted_events' = <<>>
    /\ UNCHANGED <<store, scraped, faults>>
    /\ UNCHANGED callVars

Next ==
    \/ AdapterReturns
    \/ AdapterRaises
    \/ LoadSucceeds
    \/ LoadFails
    \/ ReconcileStep
    \/ Sort
    \/ SaveOpens
    \/ SaveCloses
    \/ Killed
    \/ NextRun

Spec == Init /\ [][Next]_vars

----------------------------------------------------------------------------
(* parse_date called on its own, on a string out of a bounded set *)

DigitChar(n) ==
    CASE n = 0 -> "0" [] n = 1 -> "1" [] n = 2 -> "2" [] n = 3 -> "3"
      [] n = 4 -> "4" [] n = 5 -> "5" [] n = 6 -> "6" [] n = 7 -> "7"
      [] n = 8 -> "8" [] n = 9 -> "9"

\* str.upper() of a letter
UpperChar(c) ==
    IF \E u \in UpperLetters : LowerChar(u) = c
    THEN CHOOSE u \in UpperLetters : LowerChar(u) = c
    ELSE c

\* n written with two digits, with four digits
TwoDigits(n) == <<DigitChar((n \div 10) % 10), DigitChar(n % 10)>>
FourDigits(n) == TwoDigits(n \div 100) \o TwoDigits(n % 100)

\* the string DD.MM.YYYY
Numeric(d, m, y) == TwoDigits(d) \o <<".">> \o TwoDigits(m) \o <<".">> \o FourDigits(y)

\* the years of the strings DD.MM.YYYY: no year, the first, a century that
\* is no leap year, one that is, a leap year, a common year, the last
Years == {0, 1, 1900, 2000, 2024, 2026, 9999}

NumericInputs ==
    {Numeric(d, m, y) : d \in 0..MaxDay, m \in 0..MaxMonth, y \in Years}

\* the word in every letter case
RECURSIVE CaseVariants(_)
CaseVariants(word) ==
    IF word = <<>> THEN {<<>>}
    ELSE {<<c>> \o rest : c \in {Head(word), UpperChar(Head(word))},
                          rest \in CaseVariants(Tail(word))}

\* "15 <word> 2026"
OnThe15th(word) == <<"1","5"," ">> \o word \o <<" ","2","0","2","6">>

\* "15 <Month> 2026" for every key of month_map, in every letter case
MonthInputs ==
    UNION {{OnThe15th(w) : w \in CaseVariants(month_map[i].name)} :
              i \in 1..Len(month_map)}

\* strings no pattern matches, and strings whose month is no key
Gibberish == <<"g","i","b","b","e","r","i","s","h">>
Tbd == <<"t","b","d">>
Foo == <<"F","o","o">>
Maerzen == <<"M","ä","r","z","e","n">>
NoDay == <<"M","ä","r","z"," ","2","0","2","6">>
NoMonth == <<"1","5"," ","2","0","2","6">>

DegradeInputs ==
    {SEE_DETAILS, <<>>, None, Gibberish, Tbd, NoDay, NoMonth,
     OnThe15th(Foo), OnThe15th(Maerzen)}

\* the ways to write the day n: with two digits, and with one
DayStrings(n) ==
    {TwoDigits(n)} \cup (IF n < 10 THEN {<<DigitChar(n)>>} ELSE {})

\* "D1./D2. <name> YYYY" (dotted) and "D1/D2 <name> YYYY"
RangeString(d1, d2, name, year, dotted) ==
    d1 \o (IF dotted THEN <<".","/">> ELSE <<"/">>) \o d2
       \o (IF dotted THEN <<"."," ">> ELSE <<" ">>) \o name \o <<" ">> \o year

\* names of months as the pages write them, and a word that is none
RangeNames ==
    { <<"M","ä","r","z">>, <<"F","e","b","r","u","a","r">>,
      <<"A","p","r","i","l">>, <<"d","e","c">>, <<"S","E","P","T">>, Foo }

\* the second days of the ranges
RangeSeconds == DayStrings(2) \cup DayStrings(12) \cup DayStrings(31) \cup DayStrings(99)

\* ranges of days: every first day up to MaxDay, in a leap year and a
\* common year
RangeInputs ==
    UNION {{RangeString(d1, d2, name, FourDigits(y), dotted) :
               d1 \in DayStrings(n), d2 \in RangeSeconds, name \in RangeNames,
               y \in {2024, 2026}, dotted \in BOOLEAN} :
              n \in 0..MaxDay}

DateInputs == NumericInputs \cup MonthInputs \cup RangeInputs \cup DegradeInputs

InitDates ==
    /\ RunInit
    /\ call_arg \in DateInputs
    /\ call_ret = <<>>
    /\ ScrapeIdle

\* line 118: parse_date(event.get('date', ''))
Normalize ==
    /\ call_ret = <<>>
    /\ call_ret' = <<parse_date(call_arg)>>
    /\ UNCHANGED call_arg
    /\ UNCHANGED runVars
    /\ UNCHANGED scrapeVars

NextDates == Normalize

SpecDates == InitDates /\ [][NextDates]_vars

----------------------------------------------------------------------------
(* The load of save_to_excel on its own, on a workbook out of a bounded set *)

\* rows a workbook can hold: rows the program wrote, among them a row with
\* an empty title and a row with an empty url, in any number and order
StoreRows ==
    { <<TitleA, SEE_DETAILS, SEE_DETAILS, UrlA, GEFMA>>,
      <<TitleA, Date_10_03_2026, SEE_DETAILS, UrlA, GEFMA>>,
      <<TitleA, Date_21_April_2026, Berlin, UrlA, GEFMA>>,
      <<TitleA, SEE_DETAILS, SEE_DETAILS, UrlA, IFMA>>,
      <<None, Date_10_03_2026, Berlin, UrlA, GEFMA>>,
      <<TitleA, Date_10_03_2026, Berlin, None, GEFMA>> }

Workbooks == {Workbook(rows) : rows \in UNION {SeqsOfLen(StoreRows, n) : n \in 0..MaxRows}}

\* save_to_excel is called with no events, on some workbook
InitLoader ==
    /\ store \in Workbooks
    /\ storeBefore = store
    /\ run = 1
    /\ pc = "load"
    /\ ai = Len(Adapters) + 1
    /\ all_events = <<>>
    /\ outcomes = [a \in 1..Len(Adapters) |-> [raised |-> FALSE, batch |-> <<>>]]
    /\ existing_events = <<>>
    /\ persisted = <<>>
    /\ loadFailed = FALSE
    /\ ei = 1
    /\ new_count = 0
    /\ updated_count = 0
    /\ sorted_events = <<>>
    /\ prevExisting = <<>>
    /\ prevNew = {}
    /\ scraped = 0
    /\ faults = 0
    /\ DateIdle
    /\ ScrapeIdle

NextLoader ==
    \/ LoadSucceeds
    \/ LoadFails

SpecLoader == InitLoader /\ [][NextLoader]_vars

----------------------------------------------------------------------------
(* scrape_realfm_events and scrape_fmj_events called on their own, on a page *)
(* out of a bounded set                                                      *)

\* the values of 'source' ('RealFM', 'FMJ')
REALFM == <<"R">>
FMJ == <<"F">>

\* 'http'; 'https://www.realfm.de' and 'https://www.fmj.co.uk', which start
\* with it
Http == <<"h">>
Site(source) == IF source = REALFM THEN <<"h","r">> ELSE <<"h","j">>

\* str.startswith
StartsWith(str, prefix) ==
    /\ Len(str) >= Len(prefix)
    /\ SubSeq(str, 1, Len(prefix)) = prefix

\* realfm.py, lines 114-117; fmj.py, lines 50-53
FullUrl(href, source) ==
    IF StartsWith(href, <<"/">>) THEN Site(source) \o href
    ELSE IF ~StartsWith(href, Http) THEN Site(source) \o <<"/">> \o href
    ELSE href

\* the hrefs of the page: none, '/a', 'a' and 'https://www.realfm.de/a'
Hrefs == {<<>>, <<"/","a">>, <<"a">>, <<"h","r","/","a">>}

TitleB == <<"L">>

\* the links of the page: an href and the text of the link.  The texts hold
\* no date and no " in <City>", and no text around a link holds one
PageLinks == {[href |-> h, text |-> t] : h \in Hrefs, t \in {<<>>, TitleA, TitleB}}

\* what fetch_event_details can return: a key it does not hold is None
NoDetails == [date |-> None, location |-> None]
Details == {NoDetails, [date |-> Date_21_April_2026, location |-> Berlin],
            [date |-> None, location |-> Berlin]}

InitScrape ==
    /\ RunInit
    /\ DateIdle
    /\ scraper \in {REALFM, FMJ}
    /\ event_links \in UNION {SeqsOfLen(PageLinks, n) : n \in 0..MaxLinks}
    /\ link_i = 1
    /\ seen_urls = {}
    /\ adapter_events = <<>>
    /\ detail_i = 1
    /\ scrape_pc = "loop"

\* realfm.py, lines 108-149; fmj.py, lines 44-88: the body of the loop
LinkStep ==
    /\ scrape_pc = "loop"
    /\ link_i <= Len(event_links)
    /\ LET link == event_links[link_i]
           href == FullUrl(link.href, scraper)
       IN  IF link.href = <<>> \/ link.href \in seen_urls
           THEN UNCHANGED <<seen_urls, adapter_events>>
           ELSE /\ seen_urls' = seen_urls \cup {href}
                /\ adapter_events' =
                      IF link.text = <<>> THEN adapter_events
                      ELSE Append(adapter_events,
                                  Event(link.text, SEE_DETAILS, SEE_DETAILS,
                                        href, scraper))
    /\ link_i' = link_i + 1
    /\ UNCHANGED <<scraper, event_links, detail_i, scrape_pc>>
    /\ UNCHANGED runVars
    /\ UNCHANGED dateVars

\* the loop over the links ends: realfm.py goes on to the detail pages
\* (line 153), fmj.py returns (line 93)
LinksDone ==
    /\ scrape_pc = "loop"
    /\ link_i > Len(event_links)
    /\ scrape_pc' = IF scraper = REALFM THEN "details" ELSE "returned"
    /\ UNCHANGED <<scraper, event_links, link_i, seen_urls, adapter_events,
                   detail_i>>
    /\ UNCHANGED runVars
    /\ UNCHANGED dateVars

\* realfm.py, lines 153-159: the detail page of one event
FetchDetails ==
    /\ scrape_pc = "details"
    /\ detail_i <= Len(adapter_events)
    /\ LET event == adapter_events[detail_i]
       IN  IF event.url # <<>> /\ (event.date = SEE_DETAILS \/ event.location = SEE_DETAILS)
           THEN \E details \in Details :
                   adapter_events' =
                      [adapter_events EXCEPT ![detail_i] =
                          [event EXCEPT
                             !.date = IF details.date # None /\ event.date = SEE_DETAILS
                                      THEN details.date ELSE event.date,
                             !.location = IF details.location # None
                                             /\ event.location = SEE_DETAILS
                                          THEN details.location ELSE event.location]]
           ELSE UNCHANGED adapter_events
    /\ detail_i' = detail_i + 1
    /\ UNCHANGED <<scraper, event_links, link_i, seen_urls, scrape_pc>>
    /\ UNCHANGED runVars
    /\ UNCHANGED dateVars

\* realfm.py, line 164: the try block is through, events is returned
DetailsDone ==
    /\ scrape_pc = "details"
    /\ detail_i > Len(adapter_events)
    /\ scrape_pc' = "returned"
    /\ UNCHANGED <<scraper, event_links, link_i, seen_urls, adapter_events,
                   detail_i>>
    /\ UNCHANGED runVars
    /\ UNCHANGED dateVars

\* realfm.py, lines 161-164; fmj.py, lines 90-93: a statement of the try
\* block raises, the except clause logs the error, events is returned
ScrapeFails ==
    /\ scrape_pc \in {"loop", "details"}
    /\ scrape_pc' = "caught"
    /\ UNCHANGED <<scraper, event_links, link_i, seen_urls, adapter_events,
                   detail_i>>
    /\ UNCHANGED runVars
    /\ UNCHANGED dateVars

NextScrape ==
    \/ LinkStep
    \/ LinksDone
    \/ FetchDetails
    \/ DetailsDone
    \/ ScrapeFails

SpecScrape == InitScrape /\ [][NextScrape]_vars

----------------------------------------------------------------------------
(* save_to_excel called on its own, on a workbook and a list of events out *)
(* of bounded sets                                                         *)

TitleC == <<"M">>
TitleD == <<"N">>
Date_10_Maerz_2026 == <<"1","0","."," ","M","ä","r","z"," ","2","0","2","6">>
Date_10_11_Maerz_2026 ==
    <<"1","0",".","/","1","1","."," ","M","ä","r","z"," ","2","0","2","6">>

\* rows of the workbook: empty cells, text that is no date, the placeholder,
\* a date
SaveRows ==
    { <<TitleA, None, None, UrlA, GEFMA>>,
      <<TitleA, Tbd, Tbd, UrlA, GEFMA>>,
      <<TitleA, SEE_DETAILS, SEE_DETAILS, UrlA, GEFMA>>,
      <<TitleB, Date_10_03_2026, SEE_DETAILS, UrlA, GEFMA>>,
      <<TitleB, None, Berlin, UrlA, GEFMA>> }

\* events of the list: the same day written as a range and with the name of
\* the month, and events whose date and location are ''
SaveEvents ==
    { Event(TitleA, Date_10_11_Maerz_2026, Berlin, UrlA, GEFMA),
      Event(TitleA, <<>>, <<>>, UrlA, GEFMA),
      Event(TitleC, Date_10_Maerz_2026, Berlin, UrlA, GEFMA),
      Event(TitleD, <<>>, <<>>, UrlA, GEFMA) }

\* save_to_excel(all_events, OUTPUT_FILE) is called: the first adapter has
\* returned the events, the others none
InitSave ==
    /\ store \in {Workbook(rows) :
                    rows \in UNION {SeqsOfLen(SaveRows, n) : n \in 0..MaxStored}}
    /\ storeBefore = store
    /\ run = 1
    /\ pc = "load"
    /\ ai = Len(Adapters) + 1
    /\ all_events \in UNION {SeqsOfLen(SaveEvents, n) : n \in 0..MaxBatch}
    /\ outcomes = [a \in 1..Len(Adapters) |->
                      [raised |-> FALSE,
                       batch |-> IF a = 1 THEN all_events ELSE <<>>]]
    /\ existing_events = <<>>
    /\ persisted = <<>>
    /\ loadFailed = FALSE
    /\ ei = 1
    /\ new_count = 0
    /\ updated_count = 0
    /\ sorted_events = <<>>
    /\ prevExisting = <<>>
    /\ prevNew = {}
    /\ scraped = Len(all_events)
    /\ faults = 0
    /\ DateIdle
    /\ ScrapeIdle

NextSave ==
    \/ LoadSucceeds
    \/ ReconcileStep
    \/ Sort
    \/ SaveOpens
    \/ SaveCloses

SpecSave == InitSave /\ [][NextSave]_vars

----------------------------------------------------------------------------
(* Properties of the reconciliation, the ordering and the run *)

\* the loop of lines 52-68 has run over the whole batch
PassDone == pc = "save"

\* the rows wb.save writes for the sorted events
SavedRows == [i \in 1..Len(sorted_events) |-> RowOf(sorted_events[i])]

\* the records of a dict, as a set
ValueSet(map) == {map[i].value : i \in 1..Len(map)}

\* two records of the batch have the same key
KeyTwice(I) ==
    \E i, j \in 1..Len(I) : i < j /\ KeyOf(I[i]) = KeyOf(I[j])

\* C1 (idempotence): once a batch I has been reconciled against the loaded
\* dict P, reconciling I again against the result leaves every key and every
\* record as it is, and the second call counts new_count = 0 and
\* updated_count = 0.  The second call is made both with the same event
\* objects (all_events, as the first call left them) and with an equal batch
\* of fresh objects (returned).
C1_Idempotent ==
    PassDone =>
        LET again == Reconcile(existing_events, all_events)
            fresh == Reconcile(Fresh(existing_events), returned)
        IN  /\ again.map = existing_events
            /\ again.new = 0 /\ again.updated = 0
            /\ fresh.map = Fresh(existing_events)
            /\ fresh.new = 0 /\ fresh.updated = 0

\* a pass that added a key and upgraded it from a later record of the batch
C1_Witness ==
    /\ PassDone
    /\ new_count > 0 /\ updated_count > 0
    /\ KeyTwice(returned)

\* C2 (monotonic enrichment): no step of the run that keeps a key in the
\* dict changes a stored date or location that is not 'See details'.
C2_Monotonic ==
    [][\A k \in Keys(existing_events) \cap Keys(existing_events') :
          LET old == ValueOf(existing_events, k)
              new == ValueOf(existing_events', k)
          IN  /\ old.date # SEE_DETAILS => new.date = old.date
              /\ old.location # SEE_DETAILS => new.location = old.location]_vars

\* a record with another concrete date has met a stored concrete date
C2_Witness ==
    /\ pc = "reconcile"
    /\ \E i \in 1..(ei - 1) :
          LET e == returned[i]
              stored == ValueOf(existing_events, KeyOf(e))
          IN  /\ e.date # SEE_DETAILS
              /\ stored.date # SEE_DETAILS
              /\ stored.date # e.date

\* the batch I in the order p
Permute(I, p) == [i \in 1..Len(I) |-> I[p[i]]]

\* the records Reconcile leaves for P and the batch I taken in every order
OrderOutcomes(P, I) ==
    {ValueSet(Reconcile(P, Permute(I, p)).map) : p \in Permutations(1..Len(I))}

\* a and b are the same value, or one of them is 'See details'
Agree(a, b) == a = SEE_DETAILS \/ b = SEE_DETAILS \/ a = b

\* no two records of I with the same key differ in a concrete date or in a
\* concrete location
NoConflict(I) ==
    \A i, j \in 1..Len(I) :
        KeyOf(I[i]) = KeyOf(I[j]) =>
            /\ Agree(I[i].date, I[j].date)
            /\ Agree(I[i].location, I[j].location)

\* C3 as stated (commutativity within a batch): every order of the batch
\* leaves the set of records the run's own order left.
C3_AnyOrder ==
    PassDone =>
        OrderOutcomes(Fresh(persisted), returned) = {ValueSet(existing_events)}

\* C3, amended: when no two records of the batch with the same key carry
\* different concrete values in the same field, every order of the batch
\* leaves the set of records the run's own order left.
C3_OrderOfAgreeing ==
    (PassDone /\ NoConflict(returned)) =>
        OrderOutcomes(Fresh(persisted), returned) = {ValueSet(existing_events)}

\* a batch of agreeing records, two of them with one key and not equal, one
\* upgrading the other
C3_Witness ==
    /\ PassDone
    /\ NoConflict(returned)
    /\ updated_count > 0
    /\ \E i, j \in 1..Len(returned) :
          /\ KeyOf(returned[i]) = KeyOf(returned[j])
          /\ returned[i] # returned[j]

\* the keys of the rows of a file
RowKeys(file) == {RowKey(file.rows[i]) : i \in 1..Len(file.rows)}

\* C4 as stated (no record is ever deleted): when a run has saved, every key
\* the store held before the run is in the store, and the store holds at
\* least as many rows.
C4_NoKeyLost ==
    pc = "done" =>
        /\ RowKeys(storeBefore) \subseteq RowKeys(store)
        /\ Len(store.rows) >= Len(storeBefore.rows)

\* C4, amended: when a run has saved, every key the run loaded from the
\* store is in the store, and the store holds at least as many rows as the
\* run loaded keys.
C4_NoLoadedKeyLost ==
    pc = "done" =>
        /\ Keys(persisted) \subseteq RowKeys(store)
        /\ Len(store.rows) >= Len(persisted)

\* a run that loaded keys, added one and saved
C4_Witness ==
    /\ pc = "done"
    /\ persisted # <<>>
    /\ new_count > 0
    /\ Keys(persisted) # RowKeys(store)

\* C5 (key uniqueness): in every state during and after the pass no two
\* entries of the dict have the same key, and every entry's key is the
\* (title, url, source) of its record.
C5_UniqueKeys ==
    /\ \A i, j \in 1..Len(existing_events) :
          existing_events[i].key = existing_events[j].key => i = j
    /\ \A i \in 1..Len(existing_events) :
          existing_events[i].key = KeyOf(existing_events[i].value)

\* the pass has met a record whose key was stored already
C5_Witness ==
    /\ pc = "reconcile"
    /\ ei > 2
    /\ KeyTwice(SubSeq(returned, 1, ei - 1))
    /\ Len(existing_events) < Len(persisted) + ei - 1

\* the date d1 is not after the date d2
NotAfter(d1, d2) ==
    \/ d1.y < d2.y
    \/ d1.y = d2.y /\ d1.m < d2.m
    \/ d1.y = d2.y /\ d1.m = d2.m /\ d1.d <= d2.d

\* in the sequence of date strings every date that parses stands before
\* every one that does not, and the dates that parse do not decrease
Ordered(dates) ==
    \A i, j \in 1..Len(dates) :
        i < j =>
            LET a == parse_date(dates[i])
                b == parse_date(dates[j])
            IN  /\ b.known => a.known
                /\ (a.known /\ b.known) => NotAfter(a, b)

\* C6 (ordering): in the sequence the ordering step has made, and in the
\* rows the save has written to the store, every record with a concrete date
\* stands before every record whose date is not known, and concrete dates do
\* not decrease.  (The sequence is looked at when the ordering step has
\* ended, the file when the save has ended: neither changes until the next
\* run replaces it.)
C6_Ordered ==
    /\ pc = "save" =>
          Ordered([i \in 1..Len(sorted_events) |-> sorted_events[i].date])
    /\ pc = "done" =>
          Ordered([i \in 1..Len(store.rows) |-> store.rows[i][2]])

\* a saved run whose ordering step moved a dated record before an undated one
C6_Witness ==
    /\ pc = "done"
    /\ sorted_events # Values(existing_events)
    /\ \E i, j \in 1..Len(sorted_events) :
          /\ parse_date(sorted_events[i].date).known
          /\ ~parse_date(sorted_events[j].date).known

\* C7 (cross-adapter isolation): when an adapter has raised, every adapter
\* has still been called by the time the run goes on to the store, the
\* events handed to save_to_excel are exactly those the other adapters
\* returned, every one of them is reconciled and ordered, and the run that
\* reaches its end has saved them.
C7_Isolation ==
    raised # {} =>
        /\ pc # "adapters" => Len(outcomes) = Len(Adapters)
        /\ pc = "load" => all_events = returned
        /\ pc \in {"save", "saving", "done"} =>
              /\ ei = Len(returned) + 1
              /\ \A i \in 1..Len(returned) :
                    \E j \in 1..Len(sorted_events) :
                        KeyOf(sorted_events[j]) = KeyOf(returned[i])
        /\ pc = "done" => store = Workbook(SavedRows)

\* the first adapter raised, a later one returned events, the run has saved
C7_Witness ==
    /\ pc = "done"
    /\ 1 \in raised
    /\ returned # <<>>
    /\ store.rows # <<>>

\* the previous run added the key k with date and location 'See details'
\* and saved it
StoredPlaceholder(k) ==
    /\ k \in prevNew
    /\ ValueOf(prevExisting, k).date = SEE_DETAILS
    /\ ValueOf(prevExisting, k).location = SEE_DETAILS
    /\ storeBefore.complete
    /\ \E i \in 1..Len(storeBefore.rows) :
          storeBefore.rows[i] = RowOf(ValueOf(prevExisting, k))

\* this run's batch is one record, with a concrete date and location
OneConcrete ==
    /\ Len(returned) = 1
    /\ returned[1].date # SEE_DETAILS
    /\ returned[1].location # SEE_DETAILS

\* the dict holds the batch's record with its date and location, counted
\* as one update
Enriched ==
    /\ ValueOf(existing_events, KeyOf(returned[1])).date = returned[1].date
    /\ ValueOf(existing_events, KeyOf(returned[1])).location = returned[1].location
    /\ new_count = 0
    /\ updated_count = 1

BatchKeys(I) == {KeyOf(I[i]) : i \in 1..Len(I)}

\* C9 (malformed store recovery): when reading the store fails, at whatever
\* row, the run goes on with an empty dict, so that after the pass every key
\* of the batch has been counted as new.
C9_ColdStart ==
    loadFailed =>
        /\ persisted = <<>>
        /\ PassDone => new_count = Cardinality(BatchKeys(returned))

\* C10 (atomic write-back): at every moment the file holds either what it
\* held when the run began or the complete rows of this run.
C10_Atomic ==
    \/ store = storeBefore
    \/ store = Workbook(SavedRows)
\* C11 (sentinel round trip): a date or a location that is 'See details'
\* when the run saves is written to its row as 'See details', and when the
\* next run has loaded the record from the saved file the field is again
\* exactly 'See details', so that a concrete value would upgrade it.
C11_SentinelRoundTrip ==
    /\ pc = "done" =>
          \A i \in 1..Len(sorted_events) :
              /\ sorted_events[i].date = SEE_DETAILS
                    => store.rows[i][2] = SEE_DETAILS
              /\ sorted_events[i].location = SEE_DETAILS
                    => store.rows[i][3] = SEE_DETAILS
    /\ (pc = "reconcile" /\ ei = 1 /\ storeBefore.complete) =>
          \A k \in Keys(persisted) \cap Keys(prevExisting) :
              /\ ValueOf(prevExisting, k).date = SEE_DETAILS
                    => /\ ValueOf(persisted, k).date = SEE_DETAILS
                       /\ Upgrades(ValueOf(persisted, k).date, Date_10_03_2026)
              /\ ValueOf(prevExisting, k).location = SEE_DETAILS
                    => /\ ValueOf(persisted, k).location = SEE_DETAILS
                       /\ Upgrades(ValueOf(persisted, k).location, Berlin)

\* a run has read back a record that the run before saved with the
\* placeholder in both fields
C11_Witness ==
    /\ pc = "reconcile" /\ ei = 1 /\ storeBefore.complete /\ ~loadFailed
    /\ \E k \in Keys(persisted) \cap Keys(prevExisting) :
          /\ ValueOf(prevExisting, k).date = SEE_DETAILS
          /\ ValueOf(prevExisting, k).location = SEE_DETAILS

\* C12 (join before reconcile): save_to_excel starts only when every
\* adapter has returned or raised, and it starts on the concatenation of the
\* batches returned; the reconciliation loop is entered from the load only,
\* and from then on until the run ends no adapter is called and
\* save_to_excel is not entered again.
C12_JoinBeforeReconcile ==
    [][/\ (pc = "adapters" /\ pc' # "adapters") =>
              /\ pc' = "load"
              /\ Len(outcomes') = Len(Adapters)
              /\ all_events' = returned'
       /\ (pc # "reconcile" /\ pc' = "reconcile") =>
              /\ pc = "load"
              /\ run' = run
              /\ all_events' = returned'
              /\ ei' = 1
       /\ (pc # "adapters" /\ run' = run) =>
              /\ outcomes' = outcomes
              /\ ai' = ai
              /\ pc' \notin {"adapters", "load"}]_vars

\* the loop is at work on the events of two adapters that both returned some
C12_Witness ==
    /\ pc = "reconcile"
    /\ ei > 1
    /\ Len(outcomes) = Len(Adapters)
    /\ \A a \in 1..Len(outcomes) : outcomes[a].batch # <<>>

\* the batches of the adapters, concatenated in the order p
Concatenated(p) == Flatten([a \in 1..Len(outcomes) |-> outcomes[p[a]].batch])

\* C13 (adapter-order independence): whatever the order in which the
\* batches of the adapters (each with its own source name) are concatenated,
\* reconciling them against the loaded dict leaves the set of records the
\* run's own order left.
C13_AdapterOrder ==
    PassDone =>
        \A p \in Permutations(1..Len(outcomes)) :
            ValueSet(Reconcile(Fresh(persisted), Concatenated(p)).map)
                = ValueSet(existing_events)

\* both adapters returned events for the same title and url, one of them
\* with a concrete date
C13_Witness ==
    /\ PassDone
    /\ \A a \in 1..Len(outcomes) : outcomes[a].batch # <<>>
    /\ \E i, j \in 1..Len(returned) :
          /\ returned[i].source # returned[j].source
          /\ returned[i].title = returned[j].title
          /\ returned[i].url = returned[j].url
          /\ returned[i].date # SEE_DETAILS
----------------------------------------------------------------------------
(* Properties of parse_date *)

\* the days of the months of a year that is no leap year
MonthLengths == <<31, 28, 31, 30, 31, 30, 31, 31, 30, 31, 30, 31>>

\* the day d of the month m of the year y is a day of the calendar
InCalendar(y, m, d) ==
    /\ y >= 1
    /\ m >= 1 /\ m <= 12
    /\ d >= 1
    /\ \/ d <= MonthLengths[m]
       \/ m = 2 /\ d = 29 /\ (y % 400 = 0 \/ (y % 4 = 0 /\ y % 100 # 0))

\* s has the form DD.MM.YYYY
IsNumericForm(s) ==
    /\ Len(s) = 10
    /\ s[3] = "." /\ s[6] = "."
    /\ \A i \in {1, 2, 4, 5, 7, 8, 9, 10} : s[i] \in Digits

\* the number the digits from position i to position j of s write
RECURSIVE Number(_, _, _)
Number(s, i, j) ==
    IF i > j THEN 0
    ELSE 10 * Number(s, i, j - 1) + (CHOOSE n \in 0..9 : DigitChar(n) = s[j])

\* C14 (numeric dates): for a string DD.MM.YYYY parse_date returns the date
\* (YYYY, MM, DD) when that day is a day of the calendar, and None when it is
\* not (31.02.2026, a month 13, a day 00, the year 0000); the second pattern
\* never makes another date of it.
C14_NumericDates ==
    (call_ret # <<>> /\ IsNumericForm(call_arg)) =>
        LET d == Number(call_arg, 1, 2)
            m == Number(call_arg, 4, 5)
            y == Number(call_arg, 7, 10)
        IN  call_ret[1] = IF InCalendar(y, m, d) THEN Date(y, m, d) ELSE NoDate

\* 31.02.2026 matched the first pattern and was parsed to None
C14_Witness ==
    /\ call_arg = Numeric(31, 2, 2026)
    /\ MatchNumeric(call_arg) # <<>>
    /\ call_ret = <<NoDate>>

\* the names of the months, German and English, full and short
MonthNames ==
    << {<<"j","a","n","u","a","r">>, <<"j","a","n","u","a","r","y">>, <<"j","a","n">>},
       {<<"f","e","b","r","u","a","r">>, <<"f","e","b","r","u","a","r","y">>,
        <<"f","e","b">>},
       {<<"m","ä","r","z">>, <<"m","a","r","c","h">>, <<"m","a","r">>},
       {<<"a","p","r","i","l">>, <<"a","p","r">>},
       {<<"m","a","i">>, <<"m","a","y">>},
       {<<"j","u","n","i">>, <<"j","u","n","e">>, <<"j","u","n">>},
       {<<"j","u","l","i">>, <<"j","u","l","y">>, <<"j","u","l">>},
       {<<"a","u","g","u","s","t">>, <<"a","u","g">>},
       {<<"s","e","p","t","e","m","b","e","r">>, <<"s","e","p">>,
        <<"s","e","p","t">>},
       {<<"o","k","t","o","b","e","r">>, <<"o","c","t","o","b","e","r">>,
        <<"o","c","t">>},
       {<<"n","o","v","e","m","b","e","r">>, <<"n","o","v">>},
       {<<"d","e","z","e","m","b","e","r">>, <<"d","e","c","e","m","b","e","r">>,
        <<"d","e","c">>} >>

\* s is "15 <word> 2026" with the letters of name in some letter case
IsOnThe15th(s, name) ==
    /\ Len(s) = Len(name) + 8
    /\ SubSeq(s, 1, 3) = <<"1","5"," ">>
    /\ SubSeq(s, Len(name) + 4, Len(name) + 8) = <<" ","2","0","2","6">>
    /\ \A i \in 1..Len(name) : s[i + 3] \in {name[i], UpperChar(name[i])}

\* C15 (month names): every key of month_map is a name of a month, and for
\* "15 <Month> 2026" with the name of the month n in any letter case
\* parse_date returns the 15th of the month n of 2026.
C15_MonthNames ==
    /\ \A i \in 1..Len(month_map) :
          \E n \in 1..12 : month_map[i].name \in MonthNames[n]
    /\ \A n \in 1..12 :
          \A name \in MonthNames[n] :
              (call_ret # <<>> /\ IsOnThe15th(call_arg, name))
                  => call_ret = <<Date(2026, n, 15)>>

\* "15 MÄRz 2026" was parsed
C15_Witness ==
    /\ call_arg = OnThe15th(<<"M","Ä","R","z">>)
    /\ call_ret = <<Date(2026, 3, 15)>>

\* C16 (degrade to Unknown): parse_date returns for every string, and it
\* returns None for 'See details', for '', for None, for text that matches
\* no pattern and for text whose month name is no key of month_map.
C16_Degrade ==
    call_ret # <<>> =>
        /\ call_ret[1] = NoDate \/ call_ret[1].known
        /\ call_arg \in DegradeInputs => call_ret = <<NoDate>>

\* "15 Foo 2026" matched the second pattern and was parsed to None
C16_Witness ==
    /\ call_arg = OnThe15th(Foo)
    /\ MatchMonthName(call_arg) # <<>>
    /\ call_ret = <<NoDate>>
----------------------------------------------------------------------------
(* Properties of the load *)

\* the last row of the file with the key k
LastRow(k) ==
    store.rows[CHOOSE j \in 1..Len(store.rows) :
                  /\ RowKey(store.rows[j]) = k
                  /\ \A l \in (j + 1)..Len(store.rows) : RowKey(store.rows[l]) # k]

\* C17 (loader deduplication): when the whole file has been read, then for
\* every key of a row with a title, however many rows have that key, the
\* dict holds exactly one record with that key, and its date and location
\* are those of the last row with that key.
C17_LastRowWins ==
    (pc = "reconcile" /\ ~loadFailed) =>
        \A i \in 1..Len(store.rows) :
            store.rows[i][1] # None =>
                LET k == RowKey(store.rows[i])
                IN  /\ Cardinality({e \in 1..Len(persisted) :
                                       persisted[e].key = k}) = 1
                    /\ ValueOf(persisted, k).date = LastRow(k)[2]
                    /\ ValueOf(persisted, k).location = LastRow(k)[3]

\* a file with two rows of one key and different dates has been read
C17_Witness ==
    /\ pc = "reconcile" /\ ~loadFailed
    /\ \E i, j \in 1..Len(store.rows) :
          /\ i < j
          /\ store.rows[i][1] # None
          /\ RowKey(store.rows[i]) = RowKey(store.rows[j])
          /\ store.rows[i][2] # store.rows[j][2]
----------------------------------------------------------------------------
(* Properties of the counters and of the merge *)

\* this step is one iteration of the loop of lines 52-68
LoopStep == pc = "reconcile" /\ pc' = "reconcile" /\ ei' = ei + 1

\* C18 (new-record accounting): an iteration whose event has a key that is
\* not in the dict appends the event, all five fields as the adapter made
\* them, and adds one to new_count and nothing to updated_count; an
\* iteration whose key is in the dict leaves new_count and the number of
\* records alone.  So the dict always holds as many records as were loaded
\* plus new_count, and when the loop has ended new_count is the number of
\* distinct keys of the batch that were not loaded.
C18_NewRecords ==
    [][/\ LoopStep =>
              LET event == returned[ei]
              IN  IF KeyOf(event) \notin Keys(existing_events)
                  THEN /\ Values(existing_events')
                             = Append(Values(existing_events), event)
                       /\ Keys(existing_events')
                             = Keys(existing_events) \cup {KeyOf(event)}
                       /\ new_count' = new_count + 1
                       /\ updated_count' = updated_count
                  ELSE /\ Len(existing_events') = Len(existing_events)
                       /\ new_count' = new_count
       /\ Len(existing_events') = Len(persisted') + new_count'
       /\ pc' = "save" =>
              new_count' = Cardinality(BatchKeys(returned') \ Keys(persisted'))]_vars

\* a pass over loaded records whose batch had a loaded key and a new key
C18_Witness ==
    /\ PassDone
    /\ persisted # <<>>
    /\ new_count = 1
    /\ BatchKeys(returned) \cap Keys(persisted) # {}

\* C19 (update accounting): an iteration whose event has a key that is in
\* the dict adds exactly one to updated_count when it overwrote the stored
\* date or the stored location or both, and nothing when it overwrote
\* neither; a field is overwritten with the value of the event.
C19_Updates ==
    [][(LoopStep /\ KeyOf(returned[ei]) \in Keys(existing_events)) =>
          LET event == returned[ei]
              old == ValueOf(existing_events, KeyOf(event))
              new == ValueOf(existing_events', KeyOf(event))
          IN  /\ new.date # old.date => new.date = event.date
              /\ new.location # old.location => new.location = event.location
              /\ updated_count' =
                    IF new.date # old.date \/ new.location # old.location
                    THEN updated_count + 1
                    ELSE updated_count]_vars

\* the second event of the batch has overwritten both fields of the first
\* and was counted once
C19_Witness ==
    /\ pc = "reconcile"
    /\ ei = 3
    /\ persisted = <<>>
    /\ KeyOf(returned[1]) = KeyOf(returned[2])
    /\ returned[1].date = SEE_DETAILS /\ returned[1].location = SEE_DETAILS
    /\ returned[2].date # SEE_DETAILS /\ returned[2].location # SEE_DETAILS
    /\ updated_count = 1

\* the places of the records of I with the key k whose field f is concrete
ConcreteAt(I, k, f) ==
    {i \in 1..Len(I) : KeyOf(I[i]) = k /\ I[i][f] # SEE_DETAILS}

\* the first of a set of places
First(places) == CHOOSE i \in places : \A j \in places : i <= j

\* what first-non-placeholder-wins gives the field f of the key k
FirstWins(P, I, k, f) ==
    IF k \in Keys(P) /\ ValueOf(P, k)[f] # SEE_DETAILS
    THEN ValueOf(P, k)[f]
    ELSE IF ConcreteAt(I, k, f) # {}
         THEN I[First(ConcreteAt(I, k, f))][f]
         ELSE SEE_DETAILS

\* C20 (first non-placeholder wins): when the loop has ended the dict has
\* the loaded keys and the keys of the batch, and for each key, for the date
\* and for the location each on its own, the stored value is the loaded
\* value if that was not 'See details', else the value of the first record
\* of the batch with that key whose field is not 'See details', else
\* 'See details'.
C20_FirstWins ==
    PassDone =>
        /\ Keys(existing_events) = Keys(persisted) \cup BatchKeys(returned)
        /\ \A k \in Keys(existing_events) :
              \A f \in {"date", "location"} :
                  ValueOf(existing_events, k)[f]
                      = FirstWins(persisted, returned, k, f)

\* a loaded placeholder has met two records with different concrete dates
C20_Witness ==
    /\ PassDone
    /\ \E i, j \in 1..Len(returned) :
          /\ i < j
          /\ KeyOf(returned[i]) = KeyOf(returned[j])
          /\ KeyOf(returned[i]) \in Keys(persisted)
          /\ ValueOf(persisted, KeyOf(returned[i])).date = SEE_DETAILS
          /\ returned[i].date # SEE_DETAILS
          /\ returned[j].date # SEE_DETAILS
          /\ returned[i].date # returned[j].date

----------------------------------------------------------------------------
(* Properties of the adapters *)

\* the adapter has returned its list: after the try block, or after the
\* except clause
ScrapeReturned == scrape_pc \in {"returned", "caught"}

\* C24: an adapter in which an error occurred, after it had collected one or
\* more events, contributes no event: the list it returns is empty.
C24_FailureEmptiesBatch ==
    scrape_pc = "caught" => adapter_events = <<>>

\* C30: the list an adapter that keeps seen_urls returns never holds two
\* events with the same url, whatever the links of the page.
C30_UniqueUrls ==
    ScrapeReturned =>
        \A i, j \in 1..Len(adapter_events) :
            adapter_events[i].url = adapter_events[j].url => i = j

----------------------------------------------------------------------------
(* Properties of one pass of save_to_excel *)

\* C21 (frame of a merge step): an iteration whose event has a key that is
\* in the dict leaves the keys and their order alone, leaves the record
\* under every other key alone, leaves title, url and source of the record
\* under its key alone, and changes the date (the location) of that record
\* only when the stored date (location) is 'See details' and the event's is
\* not.
C21_Frame ==
    [][(LoopStep /\ KeyOf(returned[ei]) \in Keys(existing_events)) =>
          LET event == returned[ei]
              key == KeyOf(event)
              old == ValueOf(existing_events, key)
              new == ValueOf(existing_events', key)
          IN  /\ Len(existing_events') = Len(existing_events)
              /\ \A j \in 1..Len(existing_events) :
                    /\ existing_events'[j].key = existing_events[j].key
                    /\ existing_events[j].key # key =>
                          existing_events'[j].value = existing_events[j].value
              /\ new.title = old.title
              /\ new.url = old.url
              /\ new.source = old.source
              /\ new.date # old.date =>
                    old.date = SEE_DETAILS /\ event.date # SEE_DETAILS
              /\ new.location # old.location =>
                    old.location = SEE_DETAILS /\ event.location # SEE_DETAILS]_vars

\* the loop has upgraded a record of a dict that holds another record too,
\* and has met an event whose key holds a concrete date already
C21_Witness ==
    /\ pc = "reconcile"
    /\ ei > 2
    /\ updated_count > 0
    /\ Len(existing_events) >= 2
    /\ KeyOf(returned[ei - 1]) = KeyOf(returned[ei - 2])
    /\ returned[ei - 1].date # SEE_DETAILS
    /\ returned[ei - 2].date # SEE_DETAILS

\* the two date strings are the same day, or neither is a date
SameDay(a, b) ==
    LET pa == parse_date(a)
        pb == parse_date(b)
    IN  \/ ~pa.known /\ ~pb.known
        \/ /\ pa.known /\ pb.known
           /\ pa.y = pb.y /\ pa.m = pb.m /\ pa.d = pb.d

\* the index of the first event of the batch with key k
FirstWith(batch, k) ==
    CHOOSE i \in 1..Len(batch) :
        /\ KeyOf(batch[i]) = k
        /\ \A j \in 1..(i - 1) : KeyOf(batch[j]) # k

\* the dict holds the loaded records in the order of the load, then the new
\* records in the order of the batch
LoadThenBatchOrder ==
    /\ Len(existing_events) >= Len(persisted)
    /\ \A i \in 1..Len(persisted) : existing_events[i].key = persisted[i].key
    /\ \A i, j \in (Len(persisted) + 1)..Len(existing_events) :
          i < j => FirstWith(returned, existing_events[i].key)
                      < FirstWith(returned, existing_events[j].key)

\* C22 (stable ties): two records whose dates are the same day, written as
\* a single day, as DD.MM.YYYY or as a range of days, have equal sort keys,
\* and so have two records whose dates are both unknown; records with equal
\* sort keys stand in sorted_events in the order they have in the dict,
\* which is the loaded records in load order, then the new ones in batch
\* order.
C22_StableTies ==
    pc = "save" =>
        LET vals == Values(existing_events)
        IN  /\ LoadThenBatchOrder
            /\ Len(sorted_events) = Len(vals)
            /\ \A i, j \in 1..Len(vals) :
                  (i < j /\ SameDay(vals[i].date, vals[j].date)) =>
                      /\ sort_key(vals[i]) = sort_key(vals[j])
                      /\ \E a, b \in 1..Len(sorted_events) :
                            /\ a < b
                            /\ sorted_events[a] = vals[i]
                            /\ sorted_events[b] = vals[j]

\* sorted: a loaded and a new record of the same day, written differently,
\* and a loaded and a new record without a date, written differently, in a
\* dict whose order is not the sorted order
C22_Witness ==
    /\ pc = "save"
    /\ sorted_events # Values(existing_events)
    /\ \E i, j \in 1..Len(existing_events) :
          /\ i <= Len(persisted) /\ j > Len(persisted)
          /\ parse_date(existing_events[i].value.date).known
          /\ SameDay(existing_events[i].value.date, existing_events[j].value.date)
          /\ existing_events[i].value.date # existing_events[j].value.date
    /\ \E i, j \in 1..Len(existing_events) :
          /\ i <= Len(persisted) /\ j > Len(persisted)
          /\ ~parse_date(existing_events[i].value.date).known
          /\ SameDay(existing_events[i].value.date, existing_events[j].value.date)
          /\ existing_events[i].value.date # existing_events[j].value.date

----------------------------------------------------------------------------
(* Properties of parse_date on ranges of days *)

\* the index of the first c in s from position i on, or 0
RECURSIVE IndexFrom(_, _, _)
IndexFrom(s, c, i) ==
    IF i > Len(s) THEN 0
    ELSE IF s[i] = c THEN i ELSE IndexFrom(s, c, i + 1)

\* the parts of a string written as a range of days
RangeParts(s) ==
    LET p == IndexFrom(s, "/", 1)
        q == IndexFrom(s, " ", p + 1)
        dotted == p > 1 /\ s[p - 1] = "."
    IN  [dotted |-> dotted,
         d1 |-> SubSeq(s, 1, IF dotted THEN p - 2 ELSE p - 1),
         d2 |-> SubSeq(s, p + 1, IF dotted THEN q - 2 ELSE q - 1),
         name |-> SubSeq(s, q + 1, Len(s) - 5),
         year |-> SubSeq(s, Len(s) - 3, Len(s))]

\* one or two digits
IsDay(s) == Len(s) \in {1, 2} /\ \A i \in 1..Len(s) : s[i] \in Digits

\* s has the form "D1./D2. <word> YYYY" or "D1/D2 <word> YYYY"
IsRangeForm(s) ==
    /\ s # None
    /\ IndexFrom(s, "/", 1) > 0
    /\ IndexFrom(s, " ", IndexFrom(s, "/", 1) + 1) > 0
    /\ LET r == RangeParts(s)
       IN  /\ IsDay(r.d1)
           /\ IsDay(r.d2)
           /\ Len(r.year) = 4
           /\ \A i \in 1..4 : r.year[i] \in Digits
           /\ s = RangeString(r.d1, r.d2, r.name, r.year, r.dotted)

\* word is the name, in some letter case
SpelledAs(word, name) ==
    /\ Len(word) = Len(name)
    /\ \A i \in 1..Len(name) : word[i] \in {name[i], UpperChar(name[i])}

\* C25 (day ranges): for "D1./D2. <Month> YYYY" and "D1/D2 <Month> YYYY",
\* with D1 and D2 of one or two digits, the name of the month n in any
\* letter case and D1 a day of that month of that year, parse_date returns
\* the date (YYYY, n, D1), whatever D2 is.
C25_DayRanges ==
    (call_ret # <<>> /\ IsRangeForm(call_arg)) =>
        LET r == RangeParts(call_arg)
            d1 == Number(r.d1, 1, Len(r.d1))
            y == Number(r.year, 1, 4)
        IN  \A n \in 1..12 :
                \A name \in MonthNames[n] :
                    (SpelledAs(r.name, name) /\ InCalendar(y, n, d1))
                        => call_ret = <<Date(y, n, d1)>>

\* "9/31 Februar 2026" was parsed to the 9th of February 2026
C25_Witness ==
    /\ call_arg = RangeString(<<"9">>, <<"3","1">>, <<"F","e","b","r","u","a","r">>,
                              FourDigits(2026), FALSE)
    /\ IsRangeForm(call_arg)
    /\ call_ret = <<Date(2026, 2, 9)>>

\* C23 (candidate immutability): save_to_excel changes no field of an event
\* of the list it was called with: all_events holds the events as the
\* adapters returned them, also when an event that was stored as new is
\* followed by an event of the same key that upgrades the stored record.
C23_BatchUntouched ==
    all_events = returned

\* an iteration that adds to updated_count handles a key that was loaded,
\* and updated_count is not greater than the number of loaded keys
UpdatesOnlyLoaded ==
    LoopStep =>
        /\ updated_count' > updated_count =>
              KeyOf(returned[ei]) \in Keys(persisted)
        /\ updated_count' <= Len(persisted')

\* C26, as stated: in every pass updated_count never exceeds the number of
\* keys that were loaded, and no key that was counted in new_count adds to
\* updated_count.
C26_NeverBoth ==
    [][UpdatesOnlyLoaded]_vars

\* C26, amended: the same, for a batch in which no two events have the same
\* key.
C26_NeverBothUniqueKeys ==
    [][~KeyTwice(returned) => UpdatesOnlyLoaded]_vars

\* a pass over a batch of distinct keys that added one and upgraded another
C26_Witness ==
    /\ PassDone
    /\ ~KeyTwice(returned)
    /\ new_count > 0
    /\ updated_count > 0

\* the pass of a run that reads the file as it is and gets the batch of this
\* run once more
SecondPass == Reconcile(LoadRows(store.rows, Len(store.rows)), returned)

\* the rows that run writes
SecondRows ==
    LET out == sorted(Values(SecondPass.map))
    IN  [i \in 1..Len(out) |-> RowOf(out[i])]

\* the second run counts nothing and writes the file as it is
Fixpoint ==
    /\ SecondPass.new = 0
    /\ SecondPass.updated = 0
    /\ SecondRows = store.rows

\* C27, as stated: when a run has saved and the next run reads that file and
\* gets the same batch, the next run counts new_count = 0 and
\* updated_count = 0 and writes the same rows in the same order.
C27_Fixpoint ==
    pc = "done" => Fixpoint

\* no event of the batch has an empty title, url or source
KeysFilled(I) ==
    \A i \in 1..Len(I) :
        I[i].title # <<>> /\ I[i].url # <<>> /\ I[i].source # <<>>

\* C27, amended: the same, for a batch in which no event has an empty title,
\* url or source.
C27_FixpointFilledKeys ==
    (pc = "done" /\ KeysFilled(returned)) => Fixpoint

\* a run that loaded a record, upgraded it and added another has saved
C27_Witness ==
    /\ pc = "done"
    /\ KeysFilled(returned)
    /\ persisted # <<>>
    /\ new_count > 0
    /\ updated_count > 0
    /\ Len(store.rows) >= 2

\* the value is no date and is not the placeholder: '', an empty cell, text
NoDateNoPlaceholder(v) == v # SEE_DETAILS /\ ~parse_date(v).known

\* the record stands in sorted_events behind every record with a date
SortedLast(record, out) ==
    \E a \in 1..Len(out) :
        /\ out[a] = record
        /\ \A b \in 1..Len(out) : parse_date(out[b].date).known => b < a

\* C28 (only the exact sentinel is a placeholder): a stored date that is
\* '', an empty cell or text that is no date, and a stored location that is
\* '', an empty cell or any text but 'See details', is changed by no step
\* of the pass, whatever the batch holds for its key; the record is sorted
\* behind every record that has a date.
C28_OnlySentinel ==
    [][/\ \A j \in 1..Len(existing_events) :
             j <= Len(existing_events') =>
                 LET old == existing_events[j].value
                     new == existing_events'[j].value
                 IN  /\ existing_events'[j].key = existing_events[j].key
                     /\ NoDateNoPlaceholder(old.date) => new.date = old.date
                     /\ old.location # SEE_DETAILS => new.location = old.location
       /\ pc' = "save" =>
             \A j \in 1..Len(existing_events') :
                 NoDateNoPlaceholder(existing_events'[j].value.date) =>
                     SortedLast(existing_events'[j].value, sorted_events')]_vars

\* the pass is through: a loaded record whose date is an empty cell or text
\* has met an event of its key with a date, has kept what it held, and is
\* sorted behind a record with a date
C28_Witness ==
    /\ pc = "save"
    /\ Len(sorted_events) >= 2
    /\ parse_date(sorted_events[1].date).known
    /\ \E j \in 1..Len(persisted) :
          /\ persisted[j].value.date \in {None, Tbd}
          /\ existing_events[j].value = persisted[j].value
          /\ \E i \in 1..Len(returned) :
                /\ KeyOf(returned[i]) = persisted[j].key
                /\ parse_date(returned[i].date).known
                /\ returned[i].location # SEE_DETAILS

\* no two rows of the file have the same key
UniqueRowKeys(file) ==
    \A i, j \in 1..Len(file.rows) :
        RowKey(file.rows[i]) = RowKey(file.rows[j]) => i = j

\* the rows of the file the load makes records of (line 35)
LoadedRows(file) ==
    {file.rows[i] : i \in {j \in 1..Len(file.rows) : file.rows[j][1] # None}}

\* C29 (an empty run changes no content): a run in which every adapter
\* raised or returned nothing, and which read a file whose keys are unique,
\* counts new_count = 0 and updated_count = 0 and saves one row for each
\* record it loaded and no other, every cell as it was read.
C29_EmptyRun ==
    (/\ pc = "done"
     /\ returned = <<>>
     /\ ~loadFailed
     /\ UniqueRowKeys(storeBefore)) =>
        /\ new_count = 0
        /\ updated_count = 0
        /\ Len(store.rows) = Len(persisted)
        /\ {store.rows[i] : i \in 1..Len(store.rows)} = LoadedRows(storeBefore)

\* a run in which an adapter raised and no event was returned has saved the
\* record it loaded, whose date and location differ
C29_Witness ==
    /\ pc = "done"
    /\ raised # {}
    /\ returned = <<>>
    /\ ~loadFailed
    /\ \E j \in 1..Len(persisted) :
          persisted[j].value.date # persisted[j].value.location

====
